---- MODULE Spec2Model ----
(***************************************************************************)
(* Model of the StackedBarChart React component                            *)
(* (src/components/StackedBarChart.tsx): the component state (data,        *)
(* quarterlyTargets, width/height), the render effect (d3.group, d3.stack, *)
(* scale domains, the elements it appends to the svg and the removal       *)
(* transition it schedules on the previous content), the legend click and  *)
(* bar mouseover/mouseout handlers, and the d3 transition timers.          *)
(*                                                                         *)
(* Opacity is kept in tenths (10 = '1', 2 = '0.2').  An inline style that  *)
(* was never set is the empty sequence; the style getter then falls back   *)
(* to the computed value '1'.                                              *)
(***************************************************************************)
EXTENDS Integers, Sequences, FiniteSets, TLC

VARIABLES initialData, data, quarterlyTargets, size,
          passes, tooltips, hover, lastRender, escaped, clicks

vars == <<initialData, data, quarterlyTargets, size,
          passes, tooltips, hover, lastRender, escaped, clicks>>

----------------------------------------------------------------------------
(* Bounds of the model *)

MaxLen == 2

MaxRenders == 2

RandSteps == 2

MaxPending == 2

MaxClicks == 2

TickStep == 4

(* Input domains *)

Dates == {"2024-01", "2024-02"}

Cats == {"A", "B"}

Values == {-1, 2}

TargetInputs == {-5, 80}

Sizes == {<<800, 400>>, <<640, 320>>}

Records == [date : Dates, category : Cats, value : Values]

RecordArrays == UNION {[1..n -> Records] : n \in 0..MaxLen}

ScenarioA ==
    << [date |-> "2024-01", category |-> "A", value |-> 20],
       [date |-> "2024-01", category |-> "B", value |-> 30] >>

SampleBucket ==
    << [date |-> "2024-01", category |-> "A", value |-> 20],
       [date |-> "2024-01", category |-> "B", value |-> 30],
       [date |-> "2024-01", category |-> "C", value |-> 15] >>

----------------------------------------------------------------------------
(* Program constants *)

Opaque == 10

Dimmed == 2

RandomSpan == 50

RandomBase == 10

DefaultWidth == 800

DefaultHeight == 400

DefaultData ==
    << [date |-> "2024-01", category |-> "A", value |-> 20],
       [date |-> "2024-01", category |-> "B", value |-> 30],
       [date |-> "2024-01", category |-> "C", value |-> 15],
       [date |-> "2024-02", category |-> "A", value |-> 25],
       [date |-> "2024-02", category |-> "B", value |-> 35],
       [date |-> "2024-02", category |-> "C", value |-> 20],
       [date |-> "2024-03", category |-> "A", value |-> 30],
       [date |-> "2024-03", category |-> "B", value |-> 25],
       [date |-> "2024-03", category |-> "C", value |-> 25] >>

DefaultTargets ==
    << [date |-> "2024-01", value |-> 50],
       [date |-> "2024-02", value |-> 60],
       [date |-> "2024-03", value |-> 70] >>

----------------------------------------------------------------------------
(* Generic helpers *)

Max2(a, b) == IF a >= b THEN a ELSE b

SetMax(S) == CHOOSE m \in S : \A x \in S : x <= m

Range(s) == {s[i] : i \in 1..Len(s)}

RECURSIVE SumTo(_, _)
SumTo(f, n) == IF n = 0 THEN 0 ELSE f[n] + SumTo(f, n - 1)

----------------------------------------------------------------------------
(* Aggregator: d3.group, new Set(...), d3.stack *)

(* Insertion order of a Set / InternMap: a key is appended the first time  *)
(* it is seen.                                                             *)
RECURSIVE Distinct(_)
DistinctReversed(s) ==
    IF Len(s) = 0 THEN << >>
    ELSE LET init == Distinct(SubSeq(s, 1, Len(s) - 1))
             x    == s[Len(s)]
         IN  IF x \in Range(init) THEN init ELSE <<x>> \o init
Distinct(s) ==
    IF Len(s) = 0 THEN << >>
    ELSE LET init == Distinct(SubSeq(s, 1, Len(s) - 1))
             x    == s[Len(s)]
         IN  IF x \in Range(init) THEN init ELSE Append(init, x)

Categories(d) == Distinct([i \in 1..Len(d) |-> d[i].category])

GroupKeys(d) == Distinct([i \in 1..Len(d) |-> d[i].date])

(* Array.from(d3.group(data, d => d.date)): entries <<key, records>> *)
GroupedData(d) ==
    LET keys == GroupKeys(d)
    IN  [j \in 1..Len(keys) |->
            << keys[j], SelectSeq(d, LAMBDA r : r.date = keys[j]) >>]

(* d[1].find(item => item.category === key)?.value || 0 *)
StackValue(entry, key) ==
    LET m == SelectSeq(entry[2], LAMBDA r : r.category = key)
    IN  IF Len(m) = 0 THEN 0 ELSE m[1].value

(* d3.stack().keys(categories).value(...) with the default order and       *)
(* offset (stackOffsetNone): series i starts as [0, value] per bucket and  *)
(* is then shifted by the top of series i-1.                               *)
RECURSIVE StackPoints(_, _, _)
StackPoints(keys, entries, i) ==
    IF i = 1
    THEN [j \in 1..Len(entries) |->
            [d0 |-> 0, d1 |-> StackValue(entries[j], keys[1]), data |-> entries[j]]]
    ELSE LET prev == StackPoints(keys, entries, i - 1)
         IN  [j \in 1..Len(entries) |->
                [d0   |-> prev[j].d1,
                 d1   |-> StackValue(entries[j], keys[i]) + prev[j].d1,
                 data |-> entries[j]]]

StackNoOffset(keys, entries) ==
    [i \in 1..Len(keys) |->
        [key |-> keys[i],
         points |-> [j \in 1..Len(entries) |->
            [d0 |-> 0, d1 |-> StackValue(entries[j], keys[i]), data |-> entries[j]]]]]
Stack(keys, entries) ==
    [i \in 1..Len(keys) |->
        [key |-> keys[i], points |-> StackPoints(keys, entries, i)]]

StackedData(d) == Stack(Categories(d), GroupedData(d))

----------------------------------------------------------------------------
(* Scale builder *)

(* d3.max(stackedData[stackedData.length - 1], d => d[1]) || 0 ; only      *)
(* called when stackedData is not empty (see RenderEffect).                *)
MaxDataValue(stacked) ==
    LET last == stacked[Len(stacked)].points
    IN  IF Len(last) = 0 THEN 0 ELSE SetMax({last[j].d1 : j \in 1..Len(last)})

(* d3.max(quarterlyTargets, d => d.value) || 0 *)
MaxTargetValue(t) ==
    IF Len(t) = 0 THEN 0 ELSE SetMax({t[i].value : i \in 1..Len(t)})

MaxValueDataOnly(stacked, t) == MaxDataValue(stacked)
MaxValue(stacked, t) == Max2(MaxDataValue(stacked), MaxTargetValue(t))

(* yScale.domain([0, maxValue]) *)
YDomain(stacked, t) == <<0, MaxValue(stacked, t)>>

----------------------------------------------------------------------------
(* d3 transitions.  Every node carries its schedule list (__transition),   *)
(* oldest first.  A removal transition is created once per render on all   *)
(* elements then in the svg (batch = number of that render); a style       *)
(* transition is created by a legend click.                                *)

RemoveTr(r) == [kind |-> "remove", batch |-> r, state |-> "scheduled", target |-> 0]

StyleTr(v) == [kind |-> "style", batch |-> 0, state |-> "scheduled", target |-> v]

IsSched(e) == e.state = "scheduled"

HasRemove(tr, r, st) ==
    \E i \in 1..Len(tr) : tr[i].kind = "remove" /\ tr[i].batch = r /\ tr[i].state = st

RemoveIdx(tr, r) ==
    CHOOSE i \in 1..Len(tr) : tr[i].kind = "remove" /\ tr[i].batch = r

(* All transitions have delay 0, so timers fire in creation order: an      *)
(* entry starts only when no older entry of the node is still scheduled.   *)
OldestScheduled(tr, k) ==
    /\ tr[k].state = "scheduled"
    /\ \A i \in 1..(k - 1) : tr[i].state # "scheduled"

(* schedule.js start(): running transitions of the node are interrupted,   *)
(* older scheduled ones cancelled, newer scheduled ones stay.              *)
StartAt(tr, k, st) ==
    <<[tr[k] EXCEPT !.state = st]>>
        \o SelectSeq(SubSeq(tr, k + 1, Len(tr)), IsSched)

(* schedule.js tick()/stop(): the ended transition leaves the list. *)
EndAt(tr, k) == SubSeq(tr, 1, k - 1) \o SubSeq(tr, k + 1, Len(tr))

(* transition.remove(): on end the node is removed unless another          *)
(* transition is still in its list.                                        *)
RemovedOnEnd(tr, r) == HasRemove(tr, r, "running") /\ Len(tr) = 1

StartRemoveOn(tr, r) ==
    IF HasRemove(tr, r, "scheduled") THEN StartAt(tr, RemoveIdx(tr, r), "running") ELSE tr

EndRemoveOn(tr, r) ==
    IF HasRemove(tr, r, "running") THEN EndAt(tr, RemoveIdx(tr, r)) ELSE tr

----------------------------------------------------------------------------
(* Elements of the svg *)

Node(inDom, tr) == [inDom |-> inDom, tr |-> tr]

NoNode == Node(FALSE, << >>)

(* A fresh <g class="category">: no inline opacity, no transition.         *)
(* before = <<b1, b2>> is history: b1 is the opacity the bars rested at    *)
(* when the last legend click on them arrived, b2 the same for the click   *)
(* before it; 0 when there was no such click or a transition was in        *)
(* flight.                                                                 *)
EnterGroup(key) ==
    [key |-> key, style |-> << >>, tr |-> << >>, before |-> <<0, 0>>]

(* selection.style('opacity'): inline value, else the computed value '1' *)
StyleOpacity(g) == IF g.style = << >> THEN Opaque ELSE g.style[1]

(* opacity === '1' ? '0.2' : '1' *)
ClickTargetInverted(opacity) == IF opacity = Opaque THEN Opaque ELSE Dimmed
ClickTarget(opacity) == IF opacity = Opaque THEN Dimmed ELSE Opaque

GonePass ==
    [container |-> NoNode, legend |-> NoNode, groups |-> << >>,
     categories |-> << >>, stacked |-> << >>]

PassInDom(p) == p \in 1..Len(passes) /\ passes[p].container.inDom

HasStyleTr(g) == \E i \in 1..Len(g.tr) : g.tr[i].kind = "style"

AllSteps ==
    <<"clear", "container", "stack", "scales", "groups", "target", "rects",
      "axes", "legend">>

----------------------------------------------------------------------------
(* The render effect, lines 45-208 *)

(* svg.selectAll('*').transition().duration(300).remove() *)
ClearNode(n, r) == IF n.inDom THEN [n EXCEPT !.tr = Append(@, RemoveTr(r))] ELSE n

ClearPass(p, r) ==
    IF ~p.container.inDom THEN p
    ELSE [p EXCEPT !.container = ClearNode(@, r),
                   !.legend    = ClearNode(@, r),
                   !.groups    = [i \in 1..Len(@) |->
                                    [@[i] EXCEPT !.tr = Append(@, RemoveTr(r))]]]

ClearTooltip(t, r) == [t EXCEPT !.tr = Append(@, RemoveTr(r))]

(* The pass up to the throw of d3.max(undefined, ...) at line 73 *)
AbortedPass == [GonePass EXCEPT !.container = Node(TRUE, << >>)]

FullPass(d) ==
    LET cats == Categories(d)
    IN  [container  |-> Node(TRUE, << >>),
         legend     |-> Node(TRUE, << >>),
         groups     |-> [i \in 1..Len(cats) |-> EnterGroup(cats[i])],
         categories |-> cats,
         stacked    |-> StackedData(d)]

RenderEffect(d, t) ==
    LET r       == Len(passes) + 1
        cleared == [p \in 1..Len(passes) |-> ClearPass(passes[p], r)]
        stacked == StackedData(d)
    IN  /\ tooltips' = [i \in 1..Len(tooltips) |-> ClearTooltip(tooltips[i], r)]
        /\ IF Len(stacked) = 0
           THEN /\ passes' = Append(cleared, AbortedPass)
                /\ lastRender' = [steps   |-> SubSeq(AllSteps, 1, 3),
                                  xDomain |-> << >>, yDomain |-> << >>]
                /\ escaped' = TRUE
           ELSE /\ passes' = Append(cleared, FullPass(d))
                /\ lastRender' = [steps   |-> AllSteps,
                                  xDomain |-> GroupKeys(d),
                                  yDomain |-> YDomain(stacked, t)]
                /\ escaped' = FALSE

----------------------------------------------------------------------------
(* Component state changes; each one re-runs the effect *)

(* Math.floor(Math.random() * 50) + 10 with Math.random() = k / RandSteps *)
RandomValue(k) == ((k * RandomSpan) \div RandSteps) + RandomBase

CanRender == ~escaped /\ Len(passes) < MaxRenders

RandomizeTo(newData) ==
    /\ CanRender
    /\ Len(newData) = Len(data)
    /\ data' = newData
    /\ RenderEffect(newData, quarterlyTargets)
    /\ UNCHANGED <<initialData, quarterlyTargets, size, hover, clicks>>

RandomizeWith(K) ==
    \E ks \in [1..Len(data) -> K] :
        RandomizeTo([i \in 1..Len(data) |->
                        [data[i] EXCEPT !.value = RandomValue(ks[i])]])

Randomize == RandomizeWith(0..(RandSteps - 1))

(* onChange of the target input at position index, lines 224-231 *)
EditTargetAt(I, S) ==
    \E index \in I \cap (1..Len(quarterlyTargets)), v \in S :
        /\ CanRender
        /\ quarterlyTargets' = [quarterlyTargets EXCEPT ![index].value = v]
        /\ RenderEffect(data, quarterlyTargets')
        /\ UNCHANGED <<initialData, data, size, hover, clicks>>

EditTarget == EditTargetAt(1..Len(quarterlyTargets), TargetInputs)

Resize ==
    \E sz \in Sizes :
        /\ CanRender
        /\ sz # size
        /\ size' = sz
        /\ RenderEffect(data, quarterlyTargets)
        /\ UNCHANGED <<initialData, data, quarterlyTargets, hover, clicks>>

----------------------------------------------------------------------------
(* State after construction and the first run of the effect *)

MountedPass(d) == IF Len(d) = 0 THEN AbortedPass ELSE FullPass(d)

MountedRender(d, t) ==
    IF Len(d) = 0
    THEN [steps |-> SubSeq(AllSteps, 1, 3), xDomain |-> << >>, yDomain |-> << >>]
    ELSE [steps |-> AllSteps, xDomain |-> GroupKeys(d),
          yDomain |-> YDomain(StackedData(d), t)]

InitWith(d) ==
    /\ initialData = d
    /\ data = d
    /\ quarterlyTargets = DefaultTargets
    /\ size = <<DefaultWidth, DefaultHeight>>
    /\ passes = <<MountedPass(d)>>
    /\ tooltips = << >>
    /\ hover = << >>
    /\ lastRender = MountedRender(d, DefaultTargets)
    /\ escaped = (Len(d) = 0)
    /\ clicks = 0

----------------------------------------------------------------------------
(* Timers of the removal transition of render r (all its nodes share the   *)
(* same delay and duration, so they start and end in the same frame)       *)

DomTrs ==
    UNION {{passes[p].container.tr, passes[p].legend.tr}
             \cup {passes[p].groups[i].tr : i \in 1..Len(passes[p].groups)}
           : p \in {q \in 1..Len(passes) : passes[q].container.inDom}}
      \cup {tooltips[i].tr : i \in 1..Len(tooltips)}

StartRemoval(r) ==
    /\ \E tr \in DomTrs : HasRemove(tr, r, "scheduled")
    /\ \A tr \in DomTrs :
          HasRemove(tr, r, "scheduled") => OldestScheduled(tr, RemoveIdx(tr, r))
    /\ passes' = [p \in 1..Len(passes) |->
          [passes[p] EXCEPT
              !.container.tr = StartRemoveOn(@, r),
              !.legend.tr    = StartRemoveOn(@, r),
              !.groups       = [i \in 1..Len(@) |->
                                  [@[i] EXCEPT !.tr = StartRemoveOn(@, r)]]]]
    /\ tooltips' = [i \in 1..Len(tooltips) |->
          [tooltips[i] EXCEPT !.tr = StartRemoveOn(@, r)]]
    /\ UNCHANGED <<initialData, data, quarterlyTargets, size, hover, lastRender, escaped, clicks>>

EndRemovalPass(ps, r) ==
    IF RemovedOnEnd(ps.container.tr, r) THEN GonePass
    ELSE [ps EXCEPT
              !.container.tr = EndRemoveOn(@, r),
              !.legend.tr    = EndRemoveOn(@, r),
              !.groups       = [i \in 1..Len(@) |->
                                  [@[i] EXCEPT !.tr = EndRemoveOn(@, r)]]]

EndRemoval(r) ==
    /\ \E tr \in DomTrs : HasRemove(tr, r, "running")
    /\ passes' = [p \in 1..Len(passes) |-> EndRemovalPass(passes[p], r)]
    /\ tooltips' =
          LET kept == SelectSeq(tooltips, LAMBDA t : ~RemovedOnEnd(t.tr, r))
          IN  [i \in 1..Len(kept) |-> [kept[i] EXCEPT !.tr = EndRemoveOn(@, r)]]
    /\ hover' = IF hover # << >> /\ ~passes'[hover[1]].container.inDom
                THEN << >> ELSE hover
    /\ UNCHANGED <<initialData, data, quarterlyTargets, size, lastRender, escaped, clicks>>

----------------------------------------------------------------------------
(* Legend click handler, lines 186-195, and the timers of its transition *)

PendingStyles(g) == Len(SelectSeq(g.tr, LAMBDA e : e.kind = "style"))

LegendClick(p, i) ==
    /\ ~escaped
    /\ PassInDom(p) /\ passes[p].legend.inDom
    /\ i \in 1..Len(passes[p].groups)
    /\ clicks < MaxClicks
    /\ clicks' = clicks + 1
    /\ LET g       == passes[p].groups[i]
           opacity == StyleOpacity(g)
           rest    == IF HasStyleTr(g) THEN 0 ELSE opacity
       IN  /\ PendingStyles(g) < MaxPending
           /\ passes' = [passes EXCEPT ![p].groups[i] =
                 [g EXCEPT !.tr     = Append(@, StyleTr(ClickTarget(opacity))),
                           !.before = <<rest, g.before[1]>>]]
    /\ UNCHANGED <<initialData, data, quarterlyTargets, size, tooltips, hover,
                   lastRender, escaped>>

StyleIdx(g, st) ==
    {k \in 1..Len(g.tr) : g.tr[k].kind = "style" /\ g.tr[k].state = st}

(* start: the tween reads the current opacity; equal strings give no tween *)
StartStyle(p, i) ==
    /\ PassInDom(p) /\ i \in 1..Len(passes[p].groups)
    /\ LET g == passes[p].groups[i]
       IN  \E k \in StyleIdx(g, "scheduled") :
              /\ OldestScheduled(g.tr, k)
              /\ passes' = [passes EXCEPT ![p].groups[i].tr =
                    StartAt(g.tr, k, IF StyleOpacity(g) = g.tr[k].target
                                     THEN "null" ELSE "running")]
    /\ UNCHANGED <<initialData, data, quarterlyTargets, size, tooltips, hover,
                   lastRender, escaped, clicks>>

(* a frame in the middle of the transition: an interpolated opacity *)
TickStyle(p, i) ==
    /\ PassInDom(p) /\ i \in 1..Len(passes[p].groups)
    /\ LET g == passes[p].groups[i]
           o == StyleOpacity(g)
       IN  \E k \in StyleIdx(g, "running") :
              /\ IF o < g.tr[k].target THEN g.tr[k].target - o > TickStep
                                       ELSE o - g.tr[k].target > TickStep
              /\ passes' = [passes EXCEPT ![p].groups[i].style =
                    IF o < g.tr[k].target THEN <<o + TickStep>> ELSE <<o - TickStep>>]
    /\ UNCHANGED <<initialData, data, quarterlyTargets, size, tooltips, hover,
                   lastRender, escaped, clicks>>

(* last frame: the tween writes the target value and the schedule ends *)
EndStyle(p, i) ==
    /\ PassInDom(p) /\ i \in 1..Len(passes[p].groups)
    /\ LET g == passes[p].groups[i]
       IN  \E k \in StyleIdx(g, "running") \cup StyleIdx(g, "null") :
              passes' = [passes EXCEPT ![p].groups[i] =
                 [g EXCEPT !.tr    = EndAt(g.tr, k),
                           !.style = IF g.tr[k].state = "null" THEN g.style
                                     ELSE <<g.tr[k].target>>]]
    /\ UNCHANGED <<initialData, data, quarterlyTargets, size, tooltips, hover,
                   lastRender, escaped, clicks>>

----------------------------------------------------------------------------
(* Bar handlers, lines 143-166 *)

(* mouseover: total = d[1] - d[0], category = d.data[0], append g.tooltip *)
TooltipFor(p, d) ==
    [label |-> d.data[1], total |-> d.d1 - d.d0, tr |-> << >>, by |-> p]

MouseOver(p, s, j) ==
    /\ ~escaped
    /\ hover = << >>
    /\ PassInDom(p)
    /\ s \in 1..Len(passes[p].stacked)
    /\ j \in 1..Len(passes[p].stacked[s].points)
    /\ LET d == passes[p].stacked[s].points[j]
       IN  /\ d.d1 > d.d0    \* only a bar with some extent is under the pointer
           /\ tooltips' = Append(tooltips, TooltipFor(p, d))
    /\ hover' = <<p, s, j>>
    /\ UNCHANGED <<initialData, data, quarterlyTargets, size, passes,
                   lastRender, escaped, clicks>>

(* mouseout: svg.selectAll('.tooltip').remove() *)
MouseOut ==
    /\ ~escaped
    /\ hover # << >>
    /\ tooltips' = << >>
    /\ hover' = << >>
    /\ UNCHANGED <<initialData, data, quarterlyTargets, size, passes,
                   lastRender, escaped, clicks>>

----------------------------------------------------------------------------
(* Specifications *)

TwoBuckets ==
    << [date |-> "2024-01", category |-> "A", value |-> 2],
       [date |-> "2024-02", category |-> "B", value |-> 2] >>

PassIds == 1..MaxRenders

SeriesIds == 1..(Cardinality(Cats) + 1)

PointIds == 1..Len(DefaultTargets)

(* initialData || [ ...sample... ]: the prop when given, else the sample *)
ZeroBucket ==
    << [date |-> "2024-01", category |-> "A", value |-> 0],
       [date |-> "2024-01", category |-> "B", value |-> 0] >>

InitialArrays == RecordArrays \cup {ScenarioA, SampleBucket, TwoBuckets, ZeroBucket}

Init == \E d \in InitialArrays \cup {DefaultData} : InitWith(d)

Next ==
    \/ Randomize
    \/ EditTarget
    \/ Resize
    \/ \E p \in PassIds, i \in SeriesIds : LegendClick(p, i)
    \/ \E p \in PassIds, i \in SeriesIds : StartStyle(p, i)
    \/ \E p \in PassIds, i \in SeriesIds : TickStyle(p, i)
    \/ \E p \in PassIds, i \in SeriesIds : EndStyle(p, i)
    \/ \E p \in PassIds, s \in SeriesIds, j \in PointIds : MouseOver(p, s, j)
    \/ MouseOut
    \/ \E r \in PassIds : StartRemoval(r)
    \/ \E r \in PassIds : EndRemoval(r)

Spec == Init /\ [][Next]_vars

(* The aggregator and the scale builder on every bounded record array *)
InitAgg == \E d \in InitialArrays : InitWith(d)

NextAgg == Randomize \/ EditTarget \/ Resize

SpecAgg == InitAgg /\ [][NextAgg]_vars

(* Re-render triggers with one input each, used where the behaviour of     *)
(* the elements, not the values, is explored                               *)
DomRandom == {0}

DomTargetIndex == {1}

DomTargetInputs == {80}

Rerender ==
    \/ RandomizeWith(DomRandom)
    \/ EditTargetAt(DomTargetIndex, DomTargetInputs)
    \/ Resize

(* Legend clicks and their transitions across re-renders *)
InitLegend == InitWith(ScenarioA)

NextLegend ==
    \/ Rerender
    \/ \E p \in PassIds, i \in SeriesIds : LegendClick(p, i)
    \/ \E p \in PassIds, i \in SeriesIds : StartStyle(p, i)
    \/ \E p \in PassIds, i \in SeriesIds : TickStyle(p, i)
    \/ \E p \in PassIds, i \in SeriesIds : EndStyle(p, i)
    \/ \E r \in PassIds : StartRemoval(r)
    \/ \E r \in PassIds : EndRemoval(r)

SpecLegend == InitLegend /\ [][NextLegend]_vars

(* Pointer events on the bars across re-renders *)
InitHover == InitWith(ScenarioA) \/ InitWith(TwoBuckets)

NextHover ==
    \/ Rerender
    \/ \E p \in PassIds, s \in SeriesIds, j \in PointIds : MouseOver(p, s, j)
    \/ MouseOut
    \/ \E r \in PassIds : StartRemoval(r)
    \/ \E r \in PassIds : EndRemoval(r)

(* Every element interaction together, across re-renders *)
NextDom == NextLegend \/ NextHover

SpecDom == InitHover /\ [][NextDom]_vars

----------------------------------------------------------------------------
(* Properties *)

Latest == passes[Len(passes)]

(* The records of one bucket, and the value the bucket holds for a         *)
(* category: that of its record for the category (the first one when the   *)
(* pair is repeated), 0 when it has none.                                  *)
BucketRecords(d, date) == SelectSeq(d, LAMBDA r : r.date = date)

BucketInput(d, date) ==
    LET b == BucketRecords(d, date)
    IN  SumTo([i \in 1..Len(b) |-> b[i].value], Len(b))

ValueOf(d, date, cat) ==
    LET m == SelectSeq(d, LAMBDA r : r.date = date /\ r.category = cat)
    IN  IF Len(m) = 0 THEN 0 ELSE m[1].value

HeightSum(st, j) ==
    SumTo([i \in 1..Len(st) |-> st[i].points[j].d1 - st[i].points[j].d0], Len(st))

BucketIds(st) == IF Len(st) = 0 THEN {} ELSE 1..Len(st[1].points)

BucketKey(st, j) == st[1].points[j].data[1]

(* C1: for every bucket of the aggregated result the heights of the        *)
(* per-category intervals add up to the sum of the values of all input     *)
(* records of the bucket, repeated (date, category) pairs included, and    *)
(* the top of the last category equals that sum.                           *)
C1_StackSumInvariant ==
    LET st == Latest.stacked
    IN  \A j \in BucketIds(st) :
           /\ HeightSum(st, j) = BucketInput(data, BucketKey(st, j))
           /\ st[Len(st)].points[j].d1 = BucketInput(data, BucketKey(st, j))

Tops(st) == {st[i].points[j].d1 : i \in 1..Len(st), j \in BucketIds(st)}

TargetValues == {quarterlyTargets[i].value : i \in 1..Len(quarterlyTargets)}

BucketTotal(st, j) ==
    SumTo([h \in 1..Len(st) |-> ValueOf(data, BucketKey(st, j), st[h].key)], Len(st))

DomainMax(st) ==
    SetMax({BucketTotal(st, j) : j \in BucketIds(st)} \cup TargetValues)

Encloses(dom, S) == \A v \in S : dom[1] <= v /\ v <= dom[2]

(* C3 as stated: whenever the value scale was built, its domain is [0, M], *)
(* M the larger of the highest bucket total and the highest target, and it *)
(* encloses every interval top and every target, whatever their sign.      *)
C3_DomainEnclosesAll ==
    lastRender.yDomain # << >> =>
        /\ lastRender.yDomain = <<0, DomainMax(Latest.stacked)>>
        /\ Encloses(lastRender.yDomain, Tops(Latest.stacked))
        /\ Encloses(lastRender.yDomain, TargetValues)

NonNegative ==
    /\ \A k \in 1..Len(data) : data[k].value >= 0
    /\ \A v \in TargetValues : v >= 0

(* C3 amended: whenever the value scale was built, its domain is [0, M]    *)
(* with M as above; it encloses every interval top and every target when   *)
(* no record value and no target is negative.                              *)
C3_DomainEnclosesNonNegative ==
    lastRender.yDomain # << >> =>
        /\ lastRender.yDomain = <<0, DomainMax(Latest.stacked)>>
        /\ NonNegative =>
              /\ Encloses(lastRender.yDomain, Tops(Latest.stacked))
              /\ Encloses(lastRender.yDomain, TargetValues)

C3_Witness ==
    /\ Len(passes) >= 2
    /\ NonNegative
    /\ quarterlyTargets # DefaultTargets
    /\ lastRender.yDomain # << >>
    /\ lastRender.yDomain[2] \in TargetValues
    /\ \E v \in Tops(Latest.stacked) : v > 0

(* C8: a render pass performs all of its steps or none of them, and no     *)
(* exception escapes the effect, for every record array, the empty one     *)
(* included.                                                               *)
C8_AllOrNothing ==
    /\ lastRender.steps = AllSteps \/ lastRender.steps = << >>
    /\ ~escaped

FirstIdx(src, x) == CHOOSE i \in 1..Len(src) : src[i] = x /\ \A h \in 1..(i - 1) : src[h] # x

IsFirstAppearance(s, src) ==
    /\ Range(s) = Range(src)
    /\ \A a, b \in 1..Len(s) : a < b => FirstIdx(src, s[a]) < FirstIdx(src, s[b])

CatsOf(d) == [i \in 1..Len(d) |-> d[i].category]

DatesOf(d) == [i \in 1..Len(d) |-> d[i].date]

C9_Orders ==
    ~escaped =>
        /\ IsFirstAppearance(Latest.categories, CatsOf(data))
        /\ IsFirstAppearance(lastRender.xDomain, DatesOf(data))
        /\ IsFirstAppearance(Latest.categories, CatsOf(initialData))
        /\ IsFirstAppearance(lastRender.xDomain, DatesOf(initialData))

C9_RandomizeFrame ==
    data' # data =>
        /\ CatsOf(data') = CatsOf(data)
        /\ DatesOf(data') = DatesOf(data)
        /\ quarterlyTargets' = quarterlyTargets

(* C9: in every state reached by randomize and target edits the category   *)
(* order and the bucket-key order of the latest render are the             *)
(* first-appearance orders of the record array and equal those of the      *)
(* initial array; a step that changes the records keeps their number,      *)
(* order, dates and categories and leaves the targets alone.               *)
C9_OrderStable == []C9_Orders /\ [][C9_RandomizeFrame]_vars

C9_Witness ==
    /\ Len(passes) >= 2
    /\ data # initialData
    /\ Len(Latest.categories) >= 2
    /\ Len(lastRender.xDomain) >= 2

----------------------------------------------------------------------------
(* Properties of the drawn elements *)

Settled(g) == ~HasStyleTr(g)

(* C4: two consecutive legend clicks on a category whose bars rested at    *)
(* opacity 1 or 0.2 leave the bars, once the transitions are over, at the  *)
(* opacity they started from, whenever the second click arrives.           *)
C4_DoubleClickRestores ==
    \A i \in 1..Len(Latest.groups) :
        LET g == Latest.groups[i]
        IN  (Settled(g) /\ g.before[2] \in {Opaque, Dimmed})
                => StyleOpacity(g) = g.before[2]

(* C5: at most one tooltip element exists in the chart. *)
C5_AtMostOneTooltip == Len(tooltips) <= 1

(* C6: the tooltip created by a pointer-enter on the segment of category C *)
(* in bucket B shows the label of C and the segment's own value.           *)
C6_TooltipShowsCategory ==
    (hover # << >> /\ tooltips # << >> /\ tooltips[Len(tooltips)].by = hover[1]) =>
        LET series == passes[hover[1]].stacked[hover[2]]
            d      == series.points[hover[3]]
            t      == tooltips[Len(tooltips)]
        IN  /\ t.label = series.key
            /\ t.total = d.d1 - d.d0

Quiescent == \A tr \in DomTrs : \A k \in 1..Len(tr) : tr[k].kind # "remove"

OldPassesGone ==
    \A p \in 1..(Len(passes) - 1) :
        ~passes[p].container.inDom /\ ~passes[p].legend.inDom

(* C7: once the removal transitions have run out, every element of every   *)
(* earlier pass is gone and only elements of the latest pass remain.       *)
C7_OnlyLatestPassRemains ==
    Quiescent =>
        /\ OldPassesGone
        /\ \A k \in 1..Len(tooltips) : tooltips[k].by = Len(passes)

Pristine(g) == g.style = << >> /\ g.tr = << >>

C10_FreshOnRender ==
    Len(passes') > Len(passes) =>
        \A i \in 1..Len(passes'[Len(passes')].groups) :
            /\ Pristine(passes'[Len(passes')].groups[i])
            /\ StyleOpacity(passes'[Len(passes')].groups[i]) = Opaque

C10_FirstClickDims ==
    \A i \in 1..Len(Latest.groups) :
        (/\ Len(passes') = Len(passes)
         /\ Pristine(Latest.groups[i])
         /\ passes'[Len(passes)].groups[i] # Latest.groups[i])
            => LET tr == passes'[Len(passes)].groups[i].tr
               IN  /\ Len(tr) = 1
                   /\ tr[1].kind = "style"
                   /\ tr[1].target = Dimmed

(* C10: a re-render draws the bars of every category with no inline        *)
(* opacity (fully opaque), whatever was dimmed before, and the first       *)
(* legend click on a category of the new pass starts a transition to 0.2.  *)
C10_DimmingNotKept == [][C10_FreshOnRender /\ C10_FirstClickDims]_vars

C10_Witness ==
    /\ Len(passes) >= 2
    /\ \E p \in 1..(Len(passes) - 1) : \E h \in 1..Len(passes[p].groups) :
          /\ passes[p].container.inDom
          /\ passes[p].groups[h].style = <<Dimmed>>
          /\ \E i \in 1..Len(Latest.groups) :
                /\ Latest.groups[i].key = passes[p].groups[h].key
                /\ Latest.groups[i].style = << >>
                /\ \E k \in 1..Len(Latest.groups[i].tr) :
                      /\ Latest.groups[i].tr[k].kind = "style"
                      /\ Latest.groups[i].tr[k].target = Dimmed

(* Supporting lemma for C7: apart from tooltips, nothing of an earlier     *)
(* pass outlives the removal transitions, whatever was clicked meanwhile.  *)
OldPassesGoneWhenQuiet == Quiescent => OldPassesGone

(* Sanity: the top-level container and legend of a pass carry the same     *)
(* schedules, so they leave the svg in the same frame.                     *)
LockStep ==
    ~escaped => \A p \in 1..Len(passes) : passes[p].container = passes[p].legend

====
